---- MODULE Spec2Model ----
(***************************************************************************)
(* A-Puzzle-A-Day calendar puzzle solver (puzzle_solver.py).               *)
(*                                                                         *)
(* The model covers the orientation generator (rotate_piece, flip_piece,   *)
(* normalize_piece, get_all_orientations) and the backtracking search      *)
(* (find_first_empty, can_place_piece, place_piece, remove_piece, solve,   *)
(* solve_puzzle).  The recursion of solve is an explicit stack of frames;  *)
(* one action runs the code of solve between two call/return boundaries.   *)
(***************************************************************************)
EXTENDS Integers, Sequences, FiniteSets, TLC

VARIABLES
    month,                \* solve_puzzle argument (0: solve is called directly)
    day,                  \* solve_puzzle argument (0: solve is called directly)
    valid_cells,          \* set of playable cells of this query
    board,                \* board[r][c]: -2 (blocked/target), -1 (empty), piece id
    pieces_orientations,  \* piece id -> list of orientations (lists of offsets)
    used_pieces,          \* piece id -> BOOLEAN
    stack,                \* active invocations of solve, root first
    ret,                  \* value returned by the invocation that just ended
    result                \* what solve_puzzle hands back: "pending", "board", "None"

vars == <<month, day, valid_cells, board, pieces_orientations, used_pieces,
          stack, ret, result>>

----------------------------------------------------------------------------
(* Board geometry and lookup tables                                        *)

BOARD_ROWS == 7
BOARD_COLS == 7

Grid == (0 .. BOARD_ROWS - 1) \X (0 .. BOARD_COLS - 1)

BLOCKED == {<<0, 6>>, <<1, 6>>, <<6, 3>>, <<6, 4>>, <<6, 5>>, <<6, 6>>}

MONTHS ==
    (<<0, 0>> :> "Jan") @@ (<<0, 1>> :> "Feb") @@ (<<0, 2>> :> "Mar") @@
    (<<0, 3>> :> "Apr") @@ (<<0, 4>> :> "Mai") @@ (<<0, 5>> :> "Jun") @@
    (<<1, 0>> :> "Jul") @@ (<<1, 1>> :> "Aug") @@ (<<1, 2>> :> "Sep") @@
    (<<1, 3>> :> "Okt") @@ (<<1, 4>> :> "Nov") @@ (<<1, 5>> :> "Dez")

MONTH_NAMES ==
    <<"Jan", "Feb", "Mar", "Apr", "Mai", "Jun",
      "Jul", "Aug", "Sep", "Okt", "Nov", "Dez">>

MONTH_TO_POS ==
    [n \in {MONTHS[k] : k \in DOMAIN MONTHS} |->
        CHOOSE k \in DOMAIN MONTHS : MONTHS[k] = n]

LastDay == 31

\* The loop that fills DAYS: rows 2..6, columns 0..6, numbering the cells that
\* are not blocked while the counter is at most 31.  idx walks the nested loop.
RECURSIVE DaysLoop(_, _, _)
DaysLoop(idx, d, acc) ==
    IF idx >= (BOARD_ROWS - 2) * BOARD_COLS THEN acc
    ELSE LET cell == <<2 + (idx \div BOARD_COLS), idx % BOARD_COLS>>
         IN  IF cell \notin BLOCKED /\ d <= LastDay
             THEN DaysLoop(idx + 1, d + 1, acc @@ (cell :> d))
             ELSE DaysLoop(idx + 1, d, acc)

DAYS == DaysLoop(0, 1, <<>>)

DAY_TO_POS ==
    [d \in {DAYS[k] : k \in DOMAIN DAYS} |->
        CHOOSE k \in DOMAIN DAYS : DAYS[k] = d]

get_all_valid_cells == {cell \in Grid : cell \notin BLOCKED}

----------------------------------------------------------------------------
(* The pieces                                                              *)

PIECES ==
    [p \in 0 .. 7 |->
        CASE p = 0 -> <<<<0, 0>>, <<0, 1>>, <<1, 0>>, <<1, 1>>, <<2, 0>>, <<2, 1>>>>
          [] p = 1 -> <<<<0, 0>>, <<1, 0>>, <<2, 0>>, <<3, 0>>, <<3, 1>>>>
          [] p = 2 -> <<<<0, 0>>, <<0, 1>>, <<1, 1>>, <<2, 1>>, <<2, 2>>>>
          [] p = 3 -> <<<<0, 0>>, <<0, 2>>, <<1, 0>>, <<1, 1>>, <<1, 2>>>>
          [] p = 4 -> <<<<0, 1>>, <<1, 0>>, <<1, 1>>, <<2, 0>>, <<3, 0>>>>
          [] p = 5 -> <<<<0, 0>>, <<0, 1>>, <<1, 0>>, <<1, 1>>, <<2, 0>>>>
          [] p = 6 -> <<<<0, 1>>, <<1, 0>>, <<1, 1>>, <<2, 1>>, <<3, 1>>>>
          [] p = 7 -> <<<<0, 0>>, <<1, 0>>, <<2, 0>>, <<2, 1>>, <<2, 2>>>>]

NumPieces == Cardinality(DOMAIN PIECES)

----------------------------------------------------------------------------
(* Orientation generator                                                   *)

MinOf(S) == CHOOSE x \in S : \A y \in S : x <= y

\* Python's order on (row, col) tuples.
CellLess(a, b) == a[1] < b[1] \/ (a[1] = b[1] /\ a[2] < b[2])

\* Shift a list of cells so that its minimum row and column are 0.
Shifted(cells) ==
    LET min_r == MinOf({cells[i][1] : i \in DOMAIN cells})
        min_c == MinOf({cells[i][2] : i \in DOMAIN cells})
    IN  [i \in DOMAIN cells |-> <<cells[i][1] - min_r, cells[i][2] - min_c>>]

rotate_piece(piece) ==
    Shifted([i \in DOMAIN piece |-> <<piece[i][2], 0 - piece[i][1]>>])

flip_piece(piece) ==
    Shifted([i \in DOMAIN piece |-> <<piece[i][1], 0 - piece[i][2]>>])

\* sorted(list): insertion of each element in turn, duplicates kept.
RECURSIVE Insert(_, _)
Insert(x, s) ==
    IF s = <<>> THEN <<x>>
    ELSE IF CellLess(Head(s), x) THEN <<Head(s)>> \o Insert(x, Tail(s))
    ELSE <<x>> \o s

RECURSIVE sorted(_)
sorted(s) == IF s = <<>> THEN <<>> ELSE Insert(Head(s), sorted(Tail(s)))

\* Variant of normalize_piece that leaves the cells in the order given.
normalize_piece_unsorted(piece) == Shifted(piece)

normalize_piece(piece) == sorted(Shifted(piece))

\* The order Python compares two tuples of cells in (used only to fix an
\* enumeration order of the orientation set).
RECURSIVE ShapeLess(_, _)
ShapeLess(a, b) ==
    IF a = <<>> THEN b # <<>>
    ELSE IF b = <<>> THEN FALSE
    ELSE IF Head(a) = Head(b) THEN ShapeLess(Tail(a), Tail(b))
    ELSE CellLess(Head(a), Head(b))

RECURSIVE SortedShapes(_)
SortedShapes(S) ==
    IF S = {} THEN <<>>
    ELSE LET m == CHOOSE x \in S : \A y \in S \ {x} : ShapeLess(x, y)
         IN  <<m>> \o SortedShapes(S \ {m})

\* list(set): the iteration order of a Python set is not fixed by the language.
\* The model enumerates the set in sorted order rotated by `shift` places.
SetToList(S, shift) ==
    LET s == SortedShapes(S)
        n == Len(s)
    IN  [i \in 1 .. n |-> s[((i - 1 + shift) % n) + 1]]

\* The loop body of get_all_orientations, run for rotations i .. 3.
RECURSIVE OrientLoop(_, _, _)
OrientLoop(i, current, orientations) ==
    IF i >= 4 THEN orientations
    ELSE OrientLoop(i + 1, rotate_piece(current),
                    orientations \cup {normalize_piece(current),
                                       normalize_piece(flip_piece(current))})

get_all_orientations(piece, shift) == SetToList(OrientLoop(0, piece, {}), shift)

\* precompute_piece_orientations for a pool: a list of indices into PIECES.
precompute_piece_orientations(pool, shift) ==
    [p \in 0 .. Len(pool) - 1 |-> get_all_orientations(PIECES[pool[p + 1]], shift)]

----------------------------------------------------------------------------
(* Placement primitives                                                    *)

Empty == 0 - 1
Excluded == 0 - 2

\* What find_first_empty returns when no cell is empty (Python's None).
NoCell == <<Empty, Empty>>

can_place_piece(b, piece, start_row, start_col, valid) ==
    \A i \in DOMAIN piece :
        /\ <<start_row + piece[i][1], start_col + piece[i][2]>> \in valid
        /\ b[start_row + piece[i][1]][start_col + piece[i][2]] = Empty

\* The loop shared by place_piece and remove_piece: write `value` to the cell
\* of each offset from the i-th on.
RECURSIVE WriteCells(_, _, _, _, _, _)
WriteCells(b, piece, start_row, start_col, value, i) ==
    IF i > Len(piece) THEN b
    ELSE WriteCells([b EXCEPT ![start_row + piece[i][1]][start_col + piece[i][2]] = value],
                    piece, start_row, start_col, value, i + 1)

place_piece(b, piece, start_row, start_col, piece_id) ==
    WriteCells(b, piece, start_row, start_col, piece_id, 1)

remove_piece(b, piece, start_row, start_col) ==
    WriteCells(b, piece, start_row, start_col, Empty, 1)

\* The row-major scan of find_first_empty from cell number idx on.
RECURSIVE FirstEmptyFrom(_, _, _)
FirstEmptyFrom(b, valid, idx) ==
    IF idx >= BOARD_ROWS * BOARD_COLS THEN NoCell
    ELSE IF /\ <<idx \div BOARD_COLS, idx % BOARD_COLS>> \in valid
            /\ b[idx \div BOARD_COLS][idx % BOARD_COLS] = Empty
         THEN <<idx \div BOARD_COLS, idx % BOARD_COLS>>
         ELSE FirstEmptyFrom(b, valid, idx + 1)

find_first_empty(b, valid) == FirstEmptyFrom(b, valid, 0)

----------------------------------------------------------------------------
(* solve                                                                   *)

\* A position of the three nested loops of solve: <<piece_id, index of the
\* orientation, index of the offset>>; the loops visit them in this order.
LoopLeq(a, b) ==
    \/ a[1] < b[1]
    \/ a[1] = b[1] /\ a[2] < b[2]
    \/ a[1] = b[1] /\ a[2] = b[2] /\ a[3] <= b[3]

\* The loop positions at which the body reaches place_piece: the piece is
\* unused and can_place_piece accepts the alignment of offset ci on (row, col).
Accepted(b, used, po, valid, row, col) ==
    UNION {UNION {{<<p, oi, ci>> : ci \in
                      {ci \in DOMAIN po[p][oi] :
                          can_place_piece(b, po[p][oi],
                                          row - po[p][oi][ci][1],
                                          col - po[p][oi][ci][2], valid)}}
                  : oi \in DOMAIN po[p]}
           : p \in {q \in DOMAIN po : ~used[q]}}

\* The first position at or after `from` whose placement is accepted, or <<>>.
NextPlacement(b, used, po, valid, row, col, from) ==
    LET S == {t \in Accepted(b, used, po, valid, row, col) : LoopLeq(from, t)}
    IN  IF S = {} THEN <<>>
        ELSE CHOOSE t \in S : \A u \in S : LoopLeq(t, u)

\* Variant of Commit that does not mark the piece used.
CommitNotMarked(b, used, piece, start_row, start_col, piece_id) ==
    [board |-> place_piece(b, piece, start_row, start_col, piece_id),
     used  |-> used]

\* Lines 244-245: place the piece and mark it used.
Commit(b, used, piece, start_row, start_col, piece_id) ==
    [board |-> place_piece(b, piece, start_row, start_col, piece_id),
     used  |-> [used EXCEPT ![piece_id] = TRUE]]

\* Variant of Undo that leaves the piece marked used.
UndoStillUsed(b, used, piece, start_row, start_col, piece_id) ==
    [board |-> remove_piece(b, piece, start_row, start_col),
     used  |-> used]

\* Lines 250-251: take the piece off and mark it unused.
Undo(b, used, piece, start_row, start_col, piece_id) ==
    [board |-> remove_piece(b, piece, start_row, start_col),
     used  |-> [used EXCEPT ![piece_id] = FALSE]]

\* A frame of solve about to run its first line; board0/used0 record the
\* arguments as they were on entry.
EntryFrame(b, used) ==
    [pc |-> "entry", row |-> Empty, col |-> Empty,
     piece_id |-> 0, oi |-> 0, ci |-> 0, board0 |-> b, used0 |-> used]

\* The loops of solve from position `from` on, in the frame `f` whose callers
\* are `below`: either the next accepted placement is committed and solve is
\* called again, or the loops run out and the frame returns False.
RunLoops(b, used, below, f, row, col, from) ==
    \E t \in {NextPlacement(b, used, pieces_orientations, valid_cells, row, col, from)} :
        IF t = <<>>
        THEN /\ board' = b
             /\ used_pieces' = used
             /\ stack' = below
             /\ ret' = "false"
        ELSE \E piece \in {pieces_orientations[t[1]][t[2]]} :
             \E c \in {Commit(b, used, piece, row - piece[t[3]][1],
                              col - piece[t[3]][2], t[1])} :
                 /\ board' = c.board
                 /\ used_pieces' = c.used
                 /\ stack' = below \o
                       <<[f EXCEPT !.pc = "call", !.row = row, !.col = col,
                                   !.piece_id = t[1], !.oi = t[2], !.ci = t[3]],
                         EntryFrame(c.board, c.used)>>
                 /\ ret' = "none"

Top == stack[Len(stack)]
Below == SubSeq(stack, 1, Len(stack) - 1)

\* solve from its first line to its first recursive call or return.
SolveEnter ==
    /\ stack # <<>>
    /\ Top.pc = "entry"
    /\ \E empty \in {find_first_empty(board, valid_cells)} :
           IF empty = NoCell
           THEN /\ ret' = "true"
                /\ stack' = Below
                /\ UNCHANGED <<board, used_pieces>>
           ELSE \E f \in {Top} : \E below \in {Below} :
                    RunLoops(board, used_pieces, below, f, empty[1], empty[2],
                             <<0, 1, 1>>)
    /\ UNCHANGED <<month, day, valid_cells, pieces_orientations, result>>

\* The recursive call returned False: undo the placement and go on with the
\* loops, to the next recursive call or return.
SolveBacktrack ==
    /\ stack # <<>>
    /\ Top.pc = "call"
    /\ ret = "false"
    /\ \E f \in {Top} : \E below \in {Below} :
       \E piece \in {pieces_orientations[f.piece_id][f.oi]} :
       \E u \in {Undo(board, used_pieces, piece, f.row - piece[f.ci][1],
                      f.col - piece[f.ci][2], f.piece_id)} :
       \E b \in {u.board} : \E used \in {u.used} :
           RunLoops(b, used, below, f, f.row, f.col,
                    <<f.piece_id, f.oi, f.ci + 1>>)
    /\ UNCHANGED <<month, day, valid_cells, pieces_orientations, result>>

\* The recursive call returned True: return True at once.
SolveReturnTrue ==
    /\ stack # <<>>
    /\ Top.pc = "call"
    /\ ret = "true"
    /\ stack' = Below
    /\ UNCHANGED <<month, day, valid_cells, board, pieces_orientations,
                   used_pieces, ret, result>>

\* Variant of SolvePuzzleReturn that returns the board whatever solve returned.
SolvePuzzleReturnsBoard ==
    /\ stack = <<>>
    /\ result = "pending"
    /\ result' = "board"
    /\ UNCHANGED <<month, day, valid_cells, board, pieces_orientations,
                   used_pieces, stack, ret>>

\* The root call of solve returned: solve_puzzle returns the board or None.
SolvePuzzleReturn ==
    /\ stack = <<>>
    /\ result = "pending"
    /\ result' = IF ret = "true" THEN "board" ELSE "None"
    /\ UNCHANGED <<month, day, valid_cells, board, pieces_orientations,
                   used_pieces, stack, ret>>

Next == SolveEnter \/ SolveBacktrack \/ SolveReturnTrue \/ SolvePuzzleReturn

----------------------------------------------------------------------------
(* Initial states                                                          *)

\* Variant of ValidCellsFor that does not discard the day cell.
ValidCellsKeepDay(m, d) ==
    get_all_valid_cells \ {MONTH_TO_POS[MONTH_NAMES[m]]}

\* Lines 266-274: the playable cells and the board of a query.
ValidCellsFor(m, d) ==
    (get_all_valid_cells \ {MONTH_TO_POS[MONTH_NAMES[m]]}) \ {DAY_TO_POS[d]}

InitialBoard(valid) ==
    [r \in 0 .. BOARD_ROWS - 1 |->
        [c \in 0 .. BOARD_COLS - 1 |-> IF <<r, c>> \in valid THEN Empty ELSE Excluded]]

FullPool == [i \in 1 .. NumPieces |-> i - 1]

\* The pool without the piece `removed`.
PoolWithout(removed) ==
    [i \in 1 .. NumPieces - 1 |-> IF i - 1 < removed THEN i - 1 ELSE i]

\* Bounds of the checked instances.
MaxMonth == 1       \* solve_puzzle queries: months 1 .. MaxMonth
MaxDay == 3         \*                       days 1 .. MaxDay
MaxShift == 0       \*                       enumeration orders of the orientation sets
MaxRows == 4        \* direct calls of solve: rectangles of at most MaxRows rows
MaxCols == 4        \*                        and MaxCols columns
MaxPool == 3        \*                        with pools of at most MaxPool pieces
MaxRemoved == 1     \* searches with a piece removed: one of pieces 0 .. MaxRemoved
MaxRemovedDay == 1  \*                                on days 1 .. MaxRemovedDay of January

\* The state solve is first called in, for the playable cells `valid` and the
\* orientation lists `po` of the pool (lines 271-280).
CallSolve(valid, po) ==
    /\ valid_cells = valid
    /\ board = InitialBoard(valid)
    /\ pieces_orientations = po
    /\ used_pieces = [p \in DOMAIN po |-> FALSE]
    /\ stack = <<EntryFrame(InitialBoard(valid), [p \in DOMAIN po |-> FALSE])>>
    /\ ret = "none"
    /\ result = "pending"

\* solve_puzzle(month, day) up to its call of solve.
InitPuzzle ==
    \E shift \in 0 .. MaxShift :
    \E po \in {precompute_piece_orientations(FullPool, shift)} :
        /\ month \in 1 .. MaxMonth
        /\ day \in 1 .. MaxDay
        /\ CallSolve(ValidCellsFor(month, day), po)

\* The pieces of the set P in the order of PIECES.
PoolOf(P) ==
    [i \in 1 .. Cardinality(P) |->
        CHOOSE p \in P : Cardinality({q \in P : q < p}) = i - 1]

RECURSIVE AreaOf(_)
AreaOf(P) ==
    IF P = {} THEN 0
    ELSE LET p == CHOOSE q \in P : TRUE IN Len(PIECES[p]) + AreaOf(P \ {p})

\* solve called directly on a small board: a rectangle in the top left corner
\* of the grid without a cell of its first row and a cell of its last row (the
\* two may be the same cell), and a pool of at most MaxPool pieces some of
\* which have together as many cells as the board (other pools fail for lack
\* of area alone).
InitSmall ==
    /\ month = 0
    /\ day = 0
    /\ \E P \in {Q \in SUBSET DOMAIN PIECES : Cardinality(Q) \in 1 .. MaxPool} :
       \E areas \in {{AreaOf(Q) : Q \in SUBSET P}} :
       \E po \in {precompute_piece_orientations(PoolOf(P), 0)} :
       \E h \in 1 .. MaxRows, w \in 1 .. MaxCols :
       \E a \in {0} \X (0 .. w - 1), b \in {h - 1} \X (0 .. w - 1) :
       \E valid \in {(((0 .. h - 1) \X (0 .. w - 1)) \ {a}) \ {b}} :
          /\ Cardinality(valid) \in areas
          /\ CallSolve(valid, po)

\* solve called for a January query with the full pool or with one piece
\* removed from it.
InitRemoved ==
    /\ month = 1
    /\ day \in 1 .. MaxRemovedDay
    /\ \E pool \in {FullPool} \cup
                   {PoolWithout(removed) : removed \in DOMAIN PIECES \cap (0 .. MaxRemoved)} :
       \E po \in {precompute_piece_orientations(pool, 0)} :
          CallSolve(ValidCellsFor(month, day), po)

Init == InitPuzzle \/ InitSmall

Spec == Init /\ [][Next]_vars

SpecRemoved == InitRemoved /\ [][Next]_vars

----------------------------------------------------------------------------
(* Vocabulary of the properties                                            *)

PieceIds == DOMAIN pieces_orientations

\* The run is a solve_puzzle query: a date and the whole pool.
IsPuzzleQuery == month # 0 /\ Cardinality(PieceIds) = NumPieces

Labelled(p) == {cell \in Grid : board[cell[1]][cell[2]] = p}

Covered(piece, start_row, start_col) ==
    {<<start_row + piece[i][1], start_col + piece[i][2]>> : i \in DOMAIN piece}

\* The cell set L is one orientation of piece p at one offset.
IsPlacementOf(L, p) ==
    \E oi \in DOMAIN pieces_orientations[p] : \E cell \in L :
        L = Covered(pieces_orientations[p][oi],
                    cell[1] - pieces_orientations[p][oi][1][1],
                    cell[2] - pieces_orientations[p][oi][1][2])

\* The cells labelled p are one orientation of piece p at one offset.
OnePlacement(p) == \E L \in {Labelled(p)} : IsPlacementOf(L, p)

\* The playable cells of the query, from the date itself.
Playable ==
    {cell \in Grid : /\ cell \notin BLOCKED
                     /\ cell # MONTH_TO_POS[MONTH_NAMES[month]]
                     /\ cell # DAY_TO_POS[day]}

----------------------------------------------------------------------------
(* C1: a board returned by solve_puzzle has a piece id 0..7 in every        *)
(* playable cell, and each of the 8 pieces is on it exactly once, covering  *)
(* exactly as many cells as the piece has.                                  *)
C1_ReturnedBoardIsExactCover ==
    (IsPuzzleQuery /\ result = "board") =>
        /\ \A cell \in Playable : board[cell[1]][cell[2]] \in 0 .. NumPieces - 1
        /\ \A p \in DOMAIN PIECES : \A L \in {Labelled(p)} :
              /\ Cardinality(L) = Len(PIECES[p])
              /\ IsPlacementOf(L, p)

C1_Witness == IsPuzzleQuery /\ result = "board"

(* C2: the month cell, the day cell and the blocked cells never hold a      *)
(* piece id, during the search and in the returned board; no cell outside   *)
(* the playable set is ever written.                                        *)
C2_ExcludedCellsNeverCovered ==
    /\ \A cell \in Grid \ valid_cells : board[cell[1]][cell[2]] = Excluded
    /\ month # 0 =>
          \A cell \in BLOCKED \cup {MONTH_TO_POS[MONTH_NAMES[month]], DAY_TO_POS[day]} :
              board[cell[1]][cell[2]] \notin PieceIds

C2_Witness ==
    /\ IsPuzzleQuery
    /\ result = "board"
    /\ board[MONTH_TO_POS[MONTH_NAMES[month]][1]][MONTH_TO_POS[MONTH_NAMES[month]][2]] = Excluded
    /\ board[DAY_TO_POS[day][1]][DAY_TO_POS[day][2]] = Excluded

(* C4: solve_puzzle(1, 1), month cell (0,0) and day cell (2,0), does not    *)
(* return None; it returns a board whose 41 playable cells are all covered  *)
(* with all 8 pieces used exactly once.                                     *)
C4_JanuaryFirstIsSolved ==
    (IsPuzzleQuery /\ month = 1 /\ day = 1) =>
        /\ MONTH_TO_POS[MONTH_NAMES[month]] = <<0, 0>>
        /\ DAY_TO_POS[day] = <<2, 0>>
        /\ Cardinality(valid_cells) = 41
        /\ result # "None"
        /\ stack = <<>> => ret = "true"
        /\ result = "board" =>
              /\ \A cell \in valid_cells : board[cell[1]][cell[2]] \in PieceIds
              /\ \A p \in PieceIds : used_pieces[p] /\ OnePlacement(p)

C4_Witness == IsPuzzleQuery /\ month = 1 /\ day = 1 /\ result = "board"

----------------------------------------------------------------------------
(* Symmetry of a piece, stated on cell sets without the generator.          *)

\* The 8 maps of the square's symmetry group; <<1, 1, FALSE>> is the identity.
Isometries == {1, 0 - 1} \X {1, 0 - 1} \X BOOLEAN

Image(t, cell) ==
    IF t[3] THEN <<t[1] * cell[2], t[2] * cell[1]>>
    ELSE <<t[1] * cell[1], t[2] * cell[2]>>

\* A cell set moved so that its minimum row and column are 0.
Anchored(S) ==
    {<<cell[1] - MinOf({x[1] : x \in S}), cell[2] - MinOf({x[2] : x \in S})>> : cell \in S}

CellSet(piece) == {piece[i] : i \in DOMAIN piece}

HasSymmetry(piece) ==
    \E t \in Isometries \ {<<1, 1, FALSE>>} :
        Anchored({Image(t, cell) : cell \in CellSet(piece)}) = Anchored(CellSet(piece))

SymmetricPieces == {p \in DOMAIN PIECES : HasSymmetry(PIECES[p])}

(* C6: every shape get_all_orientations returns for a piece of PIECES has   *)
(* minimum row 0, minimum column 0 and as many cells as the piece; the      *)
(* shapes are between 1 and 8, pairwise distinct, and fewer than 8 for a    *)
(* piece with a rotational or mirror symmetry.                              *)
C6_OrientationsWellFormed ==
    IsPuzzleQuery =>
        \A p \in DOMAIN PIECES : \A os \in {pieces_orientations[p]} :
            /\ \A oi \in DOMAIN os :
                  /\ \A i \in DOMAIN os[oi] : os[oi][i][1] >= 0 /\ os[oi][i][2] >= 0
                  /\ \E i \in DOMAIN os[oi] : os[oi][i][1] = 0
                  /\ \E i \in DOMAIN os[oi] : os[oi][i][2] = 0
                  /\ Len(os[oi]) = Len(PIECES[p])
                  /\ Cardinality(CellSet(os[oi])) = Len(PIECES[p])
            /\ Len(os) \in 1 .. 8
            /\ Cardinality({CellSet(os[oi]) : oi \in DOMAIN os}) = Len(os)
            /\ p \in SymmetricPieces => Len(os) < 8

C6_Witness ==
    /\ IsPuzzleQuery
    /\ \E p \in SymmetricPieces : Len(pieces_orientations[p]) = 2
    /\ \E p \in DOMAIN PIECES \ SymmetricPieces : Len(pieces_orientations[p]) = 8

----------------------------------------------------------------------------
(* C7: at every point of the search used_pieces[p] is True exactly when    *)
(* the board has cells labelled p, and then those cells are exactly one     *)
(* orientation of the piece at one offset.                                  *)
C7_OnePlacementPerPiece ==
    \A p \in PieceIds : \A L \in {Labelled(p)} :
        /\ used_pieces[p] <=> L # {}
        /\ L # {} => IsPlacementOf(L, p)

C7_Witness ==
    /\ ret = "false"
    /\ Len(stack) >= 3
    /\ \E p, q \in PieceIds : p # q /\ used_pieces[p] /\ used_pieces[q]

(* C9 as claimed: the active invocations of solve, the root call counted,   *)
(* are never more than the 8 pieces.                                        *)
C9_DepthAtMostPieces == Len(stack) <= NumPieces

(* C9 as amended: the active invocations of solve, the root call counted,   *)
(* are never more than the pieces of the pool plus one (9 for solve_puzzle).*)
C9_DepthAtMostPiecesPlusOne == Len(stack) <= Cardinality(PieceIds) + 1

C9_Witness == IsPuzzleQuery /\ Len(stack) = NumPieces + 1

----------------------------------------------------------------------------
(* C10: for the first empty cell E, every alignment can_place_piece accepts *)
(* puts the first offset of the sorted orientation on E, so that E is the   *)
(* row-major first cell of the placement; an alignment on another offset    *)
(* puts the first offset on a cell before E that is not playable or not     *)
(* empty.                                                                   *)
C10_AcceptedAlignsFirstOffset ==
    \A E \in {find_first_empty(board, valid_cells)} :
        (result = "pending" /\ E # NoCell) =>
            /\ \A t \in Accepted(board, used_pieces, pieces_orientations,
                                 valid_cells, E[1], E[2]) :
                  LET piece == pieces_orientations[t[1]][t[2]]
                  IN  /\ t[3] = 1
                      /\ \A i \in DOMAIN piece \ {1} : CellLess(piece[1], piece[i])
                      /\ \A cell \in Covered(piece, E[1] - piece[t[3]][1],
                                             E[2] - piece[t[3]][2]) \ {E} :
                            CellLess(E, cell)
            /\ \A p \in {q \in PieceIds : ~used_pieces[q]} :
               \A oi \in DOMAIN pieces_orientations[p] :
               \A ci \in DOMAIN pieces_orientations[p][oi] \ {1} :
                  LET piece == pieces_orientations[p][oi]
                      r == E[1] - piece[ci][1] + piece[1][1]
                      c == E[2] - piece[ci][2] + piece[1][2]
                  IN  /\ CellLess(<<r, c>>, E)
                      /\ <<r, c>> \notin valid_cells \/ board[r][c] # Empty

C10_Witness ==
    /\ result = "pending"
    /\ Len(stack) >= 2
    /\ \E E \in {find_first_empty(board, valid_cells)} :
          /\ E # NoCell
          /\ Accepted(board, used_pieces, pieces_orientations, valid_cells,
                      E[1], E[2]) # {}

----------------------------------------------------------------------------
(* Exact tilings, stated without the search: pieces p, p+1, ... of the pool *)
(* may each be left out or put, in one orientation at one offset, on cells  *)
(* not yet covered, until no cell is left.                                  *)
RECURSIVE CanTile(_, _, _)
CanTile(cells, po, p) ==
    IF cells = {} THEN TRUE
    ELSE IF p \notin DOMAIN po THEN FALSE
    ELSE \/ CanTile(cells, po, p + 1)
         \/ \E oi \in DOMAIN po[p] : \E cell \in cells :
            \E cov \in {Covered(po[p][oi], cell[1] - po[p][oi][1][1],
                                cell[2] - po[p][oi][1][2])} :
                /\ cov \subseteq cells
                /\ CanTile(cells \ cov, po, p + 1)

ExistsTiling(valid, po) == CanTile(valid, po, 0)

(* C3: the search is complete: when the root call of solve returns False,   *)
(* no exact tiling of the playable cells by pieces of the pool exists.      *)
(* Stated for the direct calls of solve on small boards; the solve_puzzle   *)
(* queries of the model all succeed.                                        *)
C3_FailureMeansNoTiling ==
    (month = 0 /\ result = "None") => ~ExistsTiling(valid_cells, pieces_orientations)

\* A failed search on a board of 10 cells with a pool of two pentominoes.
C3_Witness ==
    /\ result = "None"
    /\ Cardinality(valid_cells) = 10
    /\ Cardinality(PieceIds) = 2
    /\ \A p \in PieceIds : Len(pieces_orientations[p][1]) = 5

----------------------------------------------------------------------------
(* C8: when an invocation of solve returns False, the board and the used    *)
(* flags are what they were when it was entered; after a failed root call   *)
(* every playable cell is empty and every piece unused.                     *)
C8_FailedCallRestoresState ==
    [][(ret' = "false" /\ Len(stack') < Len(stack)) =>
          /\ board' = stack[Len(stack)].board0
          /\ used_pieces' = stack[Len(stack)].used0
          /\ stack' = <<>> =>
                /\ \A cell \in valid_cells : board'[cell[1]][cell[2]] = Empty
                /\ \A p \in PieceIds : ~used_pieces'[p]]_vars

\* An invocation four levels below the root has returned False.
C8_Witness == ret = "false" /\ Len(stack) >= 4

----------------------------------------------------------------------------
RECURSIVE CoverableFrom(_, _)
CoverableFrom(po, p) ==
    IF p \notin DOMAIN po THEN 0 ELSE Len(po[p][1]) + CoverableFrom(po, p + 1)

\* The number of cells the pieces of the pool cover together.
CoverableCells(po) == CoverableFrom(po, 0)

(* C5: with one of the 8 pieces removed from the pool the pieces cover      *)
(* fewer cells than the 41 playable ones; solve returns False and no board  *)
(* is returned as a success.                                                *)
C5_RemovedPieceNoSolution ==
    (month # 0 /\ Cardinality(PieceIds) = NumPieces - 1) =>
        /\ Cardinality(valid_cells) = 41
        /\ CoverableCells(pieces_orientations) < Cardinality(valid_cells)
        /\ result # "board"
        /\ stack = <<>> => ret = "false"

C5_Witness ==
    /\ month # 0
    /\ Cardinality(PieceIds) = NumPieces - 1
    /\ result = "None"

====
